---------------------------- MODULE Spec2Model ----------------------------
(***************************************************************************)
(* The BME280 driver of bme280.c (stand-alone reader) and bpbme280.c       *)
(* (one-shot reader that sends the reading as a DTN bundle).               *)
(*                                                                         *)
(* Both programs are single threaded; the state is main's position, the    *)
(* I2C descriptor, the calibration structure, the raw sample and what has  *)
(* been printed and sent.  The sensor is the environment: its calibration  *)
(* ROM and chip-id are fixed when the run starts, a sample is produced at  *)
(* the moment it is read, and every transfer may fail.                     *)
(*                                                                         *)
(* Integer arithmetic keeps the C widths.  The build line of both files is *)
(* gcc -O2 without -ftrapv, on two's complement hardware: an int32_t or    *)
(* int64_t result is reduced modulo 2^32 or 2^64, >> of a negative value   *)
(* is arithmetic and a narrowing cast keeps the low bits.  32-bit values   *)
(* are integers in -2^31 .. 2^31-1; 64-bit values are sequences of eight   *)
(* bytes, least significant first, because products of two 32-bit values   *)
(* do not fit the integers of the model checker.                           *)
(***************************************************************************)
EXTENDS Integers, Sequences, FiniteSets, TLC

\* ------------------------------------------------------------------------
\* Fixed-width arithmetic
\* ------------------------------------------------------------------------

Pow2(n) == 2 ^ n

\* A 64-bit value is a tuple of eight bytes, least significant first.  The
\* operators below build their results as explicit tuples.

\* Carry propagation over eight columns of non-negative sums, two columns
\* at a time: Limb(cols, k) is the k-th pair of columns plus the carry out
\* of the pairs below it, and Carry(cols) the bytes of the total modulo 2^64.
RECURSIVE Limb(_, _)
Limb(cols, k) ==
    cols[2 * k - 1] + 256 * cols[2 * k]
        + (IF k = 1 THEN 0 ELSE Limb(cols, k - 1) \div 65536)

Carry(cols) ==
    << Limb(cols, 1) % 256, (Limb(cols, 1) \div 256) % 256,
       Limb(cols, 2) % 256, (Limb(cols, 2) \div 256) % 256,
       Limb(cols, 3) % 256, (Limb(cols, 3) \div 256) % 256,
       Limb(cols, 4) % 256, (Limb(cols, 4) \div 256) % 256 >>

\* The sign-extended bytes of an integer x with -2^31 <= x < 2^31:
\* the cast (int64_t)x of a 32-bit (or narrower) value.
I64(x) ==
    LET e == IF x < 0 THEN 255 ELSE 0
    IN  << x % 256, (x \div 256) % 256, (x \div 65536) % 256,
           (x \div 16777216) % 256, e, e, e, e >>

\* The signed 32-bit integer held by the low four bytes of b: (int32_t)b.
ToInt32(b) ==
    (IF b[4] >= 128 THEN b[4] - 256 ELSE b[4]) * 16777216
        + b[3] * 65536 + b[2] * 256 + b[1]

IsNeg(b) == b[8] >= 128

BZero == << 0, 0, 0, 0, 0, 0, 0, 0 >>

BOne == << 1, 0, 0, 0, 0, 0, 0, 0 >>

BAdd(a, b) ==
    Carry(<< a[1] + b[1], a[2] + b[2], a[3] + b[3], a[4] + b[4],
             a[5] + b[5], a[6] + b[6], a[7] + b[7], a[8] + b[8] >>)

\* Two's complement negation: the complement plus one.
BNeg(a) ==
    Carry(<< 256 - a[1], 255 - a[2], 255 - a[3], 255 - a[4],
             255 - a[5], 255 - a[6], 255 - a[7], 255 - a[8] >>)

\* a - b: a plus the complement of b plus one.
BSub(a, b) ==
    Carry(<< a[1] + 256 - b[1], a[2] + 255 - b[2], a[3] + 255 - b[3],
             a[4] + 255 - b[4], a[5] + 255 - b[5], a[6] + 255 - b[6],
             a[7] + 255 - b[7], a[8] + 255 - b[8] >>)

\* Byte j of a, zero below the first byte and ext above the eighth.
ByteAt(a, j, ext) == IF j < 1 THEN 0 ELSE IF j > 8 THEN ext ELSE a[j]

\* Column k of the product: the sum of a[i] * b[k + 1 - i].
Dot(a, b, k) ==
    ((a[1] * ByteAt(b, k, 0) + a[2] * ByteAt(b, k - 1, 0))
        + (a[3] * ByteAt(b, k - 2, 0) + a[4] * ByteAt(b, k - 3, 0)))
    + ((a[5] * ByteAt(b, k - 4, 0) + a[6] * ByteAt(b, k - 5, 0))
        + (a[7] * ByteAt(b, k - 6, 0) + a[8] * ByteAt(b, k - 7, 0)))

\* The low eight bytes of the product: multiplication modulo 2^64, which
\* is the same for signed and unsigned operands.
BMul(a, b) ==
    Carry(<< Dot(a, b, 1), Dot(a, b, 2), Dot(a, b, 3), Dot(a, b, 4),
             Dot(a, b, 5), Dot(a, b, 6), Dot(a, b, 7), Dot(a, b, 8) >>)

\* Byte i of a << (8q + r).
ShlByte(a, q, r, i) ==
    ((ByteAt(a, i - q, 0) * Pow2(r)) % 256)
        + (ByteAt(a, i - q - 1, 0) \div Pow2(8 - r))

\* a << n, bits shifted out at the top are lost.
BShl(a, n) ==
    LET q == n \div 8
        r == n % 8
    IN  << ShlByte(a, q, r, 1), ShlByte(a, q, r, 2), ShlByte(a, q, r, 3),
           ShlByte(a, q, r, 4), ShlByte(a, q, r, 5), ShlByte(a, q, r, 6),
           ShlByte(a, q, r, 7), ShlByte(a, q, r, 8) >>

\* Byte i of a >> (8q + r), ext being the byte of sign bits.
SarByte(a, q, r, ext, i) ==
    (ByteAt(a, i + q, ext) \div Pow2(r))
        + ((ByteAt(a, i + q + 1, ext) % Pow2(r)) * Pow2(8 - r))

\* a >> n on a signed value: the sign bit is copied in at the top.
BSar(a, n) ==
    LET q == n \div 8
        r == n % 8
        ext == IF IsNeg(a) THEN 255 ELSE 0
    IN  << SarByte(a, q, r, ext, 1), SarByte(a, q, r, ext, 2),
           SarByte(a, q, r, ext, 3), SarByte(a, q, r, ext, 4),
           SarByte(a, q, r, ext, 5), SarByte(a, q, r, ext, 6),
           SarByte(a, q, r, ext, 7), SarByte(a, q, r, ext, 8) >>

\* Unsigned comparison a >= b, on three groups of bytes from the top.
UGeq(a, b) ==
    LET ah == a[8] * 65536 + a[7] * 256 + a[6]
        bh == b[8] * 65536 + b[7] * 256 + b[6]
        am == a[5] * 65536 + a[4] * 256 + a[3]
        bm == b[5] * 65536 + b[4] * 256 + b[3]
        al == a[2] * 256 + a[1]
        bl == b[2] * 256 + b[1]
    IN  \/ ah > bh
        \/ ah = bh /\ am > bm
        \/ ah = bh /\ am = bm /\ al >= bl

BitOf(a, k) == (a[(k \div 8) + 1] \div Pow2(k % 8)) % 2

\* Unsigned long division, one bit of the dividend per step: s holds the
\* quotient q and the remainder r of the bits above bit k, and n bits are
\* taken from bit k down (d # 0).
Shifted(r, a, k) == BAdd(BShl(r, 1), I64(BitOf(a, k)))

RECURSIVE DivBits(_, _, _, _, _)
DivBits(a, d, k, n, s) ==
    IF n = 0 THEN s
    ELSE IF UGeq(Shifted(s.r, a, k), d)
    THEN DivBits(a, d, k - 1, n - 1,
                 [q |-> BAdd(BShl(s.q, 1), BOne), r |-> BSub(Shifted(s.r, a, k), d)])
    ELSE DivBits(a, d, k - 1, n - 1,
                 [q |-> BShl(s.q, 1), r |-> Shifted(s.r, a, k)])

\* The division byte by byte, from byte j of the dividend down.  The
\* remainder stays below d; with d = 0 it cannot, and the division stops
\* where it stands.
RECURSIVE UDiv(_, _, _, _)
UDiv(a, d, j, s) ==
    IF j < 0 \/ UGeq(s.r, d) THEN s
    ELSE UDiv(a, d, j - 1, DivBits(a, d, 8 * j + 7, 8, s))

BAbs(a) == IF IsNeg(a) THEN BNeg(a) ELSE a

\* The C operator / on int64_t: the quotient truncated toward zero.  A zero
\* divisor and INT64_MIN / -1 have no defined result; DivUndefined tells
\* the caller so, and what BDiv gives there is of no account.
BDiv(a, d) ==
    IF IsNeg(a) # IsNeg(d)
    THEN BNeg(UDiv(BAbs(a), BAbs(d), 7, [q |-> BZero, r |-> BZero]).q)
    ELSE UDiv(BAbs(a), BAbs(d), 7, [q |-> BZero, r |-> BZero]).q

DivUndefined(a, d) ==
    \/ d = BZero
    \/ /\ a = << 0, 0, 0, 0, 0, 0, 0, 128 >>
       /\ d = << 255, 255, 255, 255, 255, 255, 255, 255 >>

\* Narrowing casts.
U16(x) == x % 65536
S16(x) == ((x + 32768) % 65536) - 32768
S8(x) == ((x + 128) % 256) - 128
BitAnd15(x) == x % 16

\* int32_t arithmetic on integers of the model: the result modulo 2^32, as a
\* signed value.  Sums go by 16-bit halves, products by the 64-bit product.
Wrap32(hi, lo) == S16(hi + (lo \div 65536)) * 65536 + (lo % 65536)
Add32(a, b) == Wrap32((a \div 65536) + (b \div 65536), (a % 65536) + (b % 65536))
Sub32(a, b) ==
    Wrap32((a \div 65536) - (b \div 65536) - 1, (a % 65536) - (b % 65536) + 65536)
Mul32(a, b) == ToInt32(BMul(I64(a), I64(b)))
Shl32(a, n) == ToInt32(BShl(I64(a), n))
Sar32(a, n) == a \div Pow2(n)

\* Bit k of x | y, in place.
OrBit(x, y, k) ==
    IF (x \div Pow2(k)) % 2 = 1 \/ (y \div Pow2(k)) % 2 = 1 THEN Pow2(k) ELSE 0

\* x | y for two bytes.
OrByte(x, y) ==
    OrBit(x, y, 0) + OrBit(x, y, 1) + OrBit(x, y, 2) + OrBit(x, y, 3)
        + OrBit(x, y, 4) + OrBit(x, y, 5) + OrBit(x, y, 6) + OrBit(x, y, 7)

\* Bitwise OR of two non-negative integers below 2^24.
BitOr(a, b) ==
    OrByte(a % 256, b % 256)
        + 256 * OrByte((a \div 256) % 256, (b \div 256) % 256)
        + 65536 * OrByte((a \div 65536) % 256, (b \div 65536) % 256)

\* ------------------------------------------------------------------------
\* Program constants
\* ------------------------------------------------------------------------

BME280_CHIP_ID == 96
REG_ID == 208
REG_CTRL_HUM == 242
REG_STATUS == 243
REG_CTRL_MEAS == 244
REG_CONFIG == 245
REG_PRESS_MSB == 247
CALIB00 == 136
CALIB26 == 225
LenCalib00 == 26
LenCalib26 == 7
LenRaw == 8
\* The number of status polls of each program's loop.
PollLimitBme280 == 10
PollLimitBpbme280 == 5
HumMax == 419430400

\* p[k] for a C buffer p with zero-based index k.
At(p, k) == p[k + 1]

\* ------------------------------------------------------------------------
\* I2C helpers.  w is what write() returned, r what read() returned.
\* ------------------------------------------------------------------------

i2c_write_reg(w) == IF w = 2 THEN 0 ELSE -1

i2c_read_reg(w, r) == IF w # 1 THEN -1 ELSE IF r # 1 THEN -1 ELSE 0

\* i2c_read_regs testing the result of read() for an error only.
i2c_read_regs_NoShortCheck(w, r, len) == IF w # 1 THEN -1 ELSE IF r < 0 THEN -1 ELSE 0

i2c_read_regs(w, r, len) == IF w # 1 THEN -1 ELSE IF r = len THEN 0 ELSE -1

\* ------------------------------------------------------------------------
\* Calibration load
\* ------------------------------------------------------------------------

\* (uint16_t)((p)[0] | ((uint16_t)(p)[1] << 8)) at p = &buf[k]
U16_LE(buf, k) == U16(BitOr(At(buf, k), U16(At(buf, k + 1)) * Pow2(8)))

\* S16_LE taking the first byte as the high one.
S16_LE_BigEndian(buf, k) == S16(BitOr(At(buf, k + 1), S16(At(buf, k)) * Pow2(8)))

\* (int16_t)((p)[0] | ((int16_t)(p)[1] << 8)) at p = &buf[k]
S16_LE(buf, k) == S16(BitOr(At(buf, k), S16(At(buf, k + 1)) * Pow2(8)))

\* DecodeH4 taking the high nibble of b[4], as DecodeH5 does.
DecodeH4_HighNibble(b) == S16(BitOr(S16(At(b, 3)) * Pow2(4), At(b, 4) \div Pow2(4)))

\* (int16_t)((((int16_t)b[3]) << 4) | (b[4] & 0x0F))
DecodeH4(b) == S16(BitOr(S16(At(b, 3)) * Pow2(4), BitAnd15(At(b, 4))))

\* DecodeH5 with the 12-bit value sign-extended.
DecodeH5_SignExtended(b) ==
    IF At(b, 5) >= 128
    THEN At(b, 5) * Pow2(4) + At(b, 4) \div Pow2(4) - 4096
    ELSE At(b, 5) * Pow2(4) + At(b, 4) \div Pow2(4)

\* (int16_t)((((int16_t)b[5]) << 4) | (b[4] >> 4))
DecodeH5(b) == S16(BitOr(S16(At(b, 5)) * Pow2(4), At(b, 4) \div Pow2(4)))

\* The assignments of the loader once both reads have succeeded; t_fine is
\* not assigned.
DecodeCalib(c, buf1, buf2) ==
    [c EXCEPT
        !.dig_T1 = U16_LE(buf1, 0),  !.dig_T2 = S16_LE(buf1, 2),
        !.dig_T3 = S16_LE(buf1, 4),
        !.dig_P1 = U16_LE(buf1, 6),  !.dig_P2 = S16_LE(buf1, 8),
        !.dig_P3 = S16_LE(buf1, 10), !.dig_P4 = S16_LE(buf1, 12),
        !.dig_P5 = S16_LE(buf1, 14), !.dig_P6 = S16_LE(buf1, 16),
        !.dig_P7 = S16_LE(buf1, 18), !.dig_P8 = S16_LE(buf1, 20),
        !.dig_P9 = S16_LE(buf1, 22),
        !.dig_H1 = At(buf1, 24),
        !.dig_H2 = S16_LE(buf2, 0),
        !.dig_H3 = At(buf2, 2),
        !.dig_H4 = DecodeH4(buf2),
        !.dig_H5 = DecodeH5(buf2),
        !.dig_H6 = S8(At(buf2, 6))]

\* read_calibration assigning the fields before the second read is tested.
read_calibration_Partial(c, r1, r2, buf1, buf2) ==
    IF r1 < 0 THEN [ret |-> -1, c |-> c]
    ELSE [ret |-> IF r2 < 0 THEN -1 ELSE 0, c |-> DecodeCalib(c, buf1, buf2)]

\* bme280.c: r1 and r2 are the results of the two i2c_read_regs calls (the
\* second is not made when the first failed); returns the result and the
\* caller's structure.
read_calibration(c, r1, r2, buf1, buf2) ==
    IF r1 < 0 THEN [ret |-> -1, c |-> c]
    ELSE IF r2 < 0 THEN [ret |-> -1, c |-> c]
    ELSE [ret |-> 0, c |-> DecodeCalib(c, buf1, buf2)]

\* bpbme280.c: the same loader under its other name.
bme280_read_calib(c, r1, r2, b1, b2) ==
    IF r1 < 0 THEN [ret |-> -1, c |-> c]
    ELSE IF r2 < 0 THEN [ret |-> -1, c |-> c]
    ELSE [ret |-> 0, c |-> DecodeCalib(c, b1, b2)]

\* ------------------------------------------------------------------------
\* Raw sample
\* ------------------------------------------------------------------------

\* ((int32_t)d[k] << 12) | ((int32_t)d[k+1] << 4) | (d[k+2] >> 4)
Raw20(d, k) ==
    BitOr(BitOr(At(d, k) * Pow2(12), At(d, k + 1) * Pow2(4)),
          At(d, k + 2) \div Pow2(4))

\* ((int32_t)d[6] << 8) | d[7]
Raw16(d) == BitOr(At(d, 6) * Pow2(8), At(d, 7))

\* read_raw_data storing the pressure before the result of the read is looked at.
read_raw_data_Partial(adc, r, data) ==
    IF r < 0 THEN [ret |-> -1, adc |-> [adc EXCEPT !.P = Raw20(data, 0)]]
    ELSE [ret |-> 0,
          adc |-> [P |-> Raw20(data, 0), T |-> Raw20(data, 3), H |-> Raw16(data)]]

\* r is the result of i2c_read_regs; adc is the caller's three outputs.
read_raw_data(adc, r, data) ==
    IF r < 0 THEN [ret |-> -1, adc |-> adc]
    ELSE [ret |-> 0,
          adc |-> [P |-> Raw20(data, 0), T |-> Raw20(data, 3), H |-> Raw16(data)]]

bme280_read_raw(adc, r, d) ==
    IF r < 0 THEN [ret |-> -1, adc |-> adc]
    ELSE [ret |-> 0,
          adc |-> [P |-> Raw20(d, 0), T |-> Raw20(d, 3), H |-> Raw16(d)]]

\* ------------------------------------------------------------------------
\* Compensation.  The doubles returned are kept as the integer the code
\* converts: T / 100.0, p / 25600.0 and h / 1024.0.
\* ------------------------------------------------------------------------

\* T_fine with the sign of the first term turned round.
T_fine_NegSlope(adc_T, c) ==
    LET var1 == Sar32(Mul32(Sub32(Shl32(c.dig_T1, 1), Sar32(adc_T, 3)), c.dig_T2), 11)
        d    == Sub32(Sar32(adc_T, 4), c.dig_T1)
        var2 == Sar32(Mul32(Sar32(Mul32(d, d), 12), c.dig_T3), 14)
    IN  Add32(var1, var2)

T_fine(adc_T, c) ==
    LET var1 == Sar32(Mul32(Sub32(Sar32(adc_T, 3), Shl32(c.dig_T1, 1)), c.dig_T2), 11)
        d    == Sub32(Sar32(adc_T, 4), c.dig_T1)
        var2 == Sar32(Mul32(Sar32(Mul32(d, d), 12), c.dig_T3), 14)
    IN  Add32(var1, var2)

\* a * b does not fit int32_t.
MulOverflows(a, b) == BMul(I64(a), I64(b)) # I64(Mul32(a, b))

\* One of the three multiplications of var1 and var2 overflows int32_t; the
\* subtractions and the final sum cannot.
T_Overflows(adc_T, c) ==
    \/ MulOverflows(Sub32(Sar32(adc_T, 3), Shl32(c.dig_T1, 1)), c.dig_T2)
    \/ MulOverflows(Sub32(Sar32(adc_T, 4), c.dig_T1), Sub32(Sar32(adc_T, 4), c.dig_T1))
    \/ MulOverflows(Sar32(Mul32(Sub32(Sar32(adc_T, 4), c.dig_T1),
                                Sub32(Sar32(adc_T, 4), c.dig_T1)), 12), c.dig_T3)

\* t_fine * (5 + 128) >> 8
T_centi_Precedence(t_fine) == Sar32(Mul32(t_fine, 133), 8)

\* (t_fine * 5 + 128) >> 8, in hundredths of a degree
T_centi(t_fine) == Sar32(Add32(Mul32(t_fine, 5), 128), 8)

\* compensate_T storing into a coefficient as well.
compensate_T_Clobber(adc_T, c) ==
    LET t == T_fine(adc_T, c)
    IN  [c |-> [c EXCEPT !.t_fine = t, !.dig_T1 = t % 65536], T |-> T_centi(t)]

compensate_T(adc_T, c) ==
    LET t == T_fine(adc_T, c)
    IN  [c |-> [c EXCEPT !.t_fine = t], T |-> T_centi(t)]

bme280_comp_T(adc_T, c) ==
    LET t == T_fine(adc_T, c)
    IN  [c |-> [c EXCEPT !.t_fine = t], T |-> T_centi(t)]

\* var1 - 128000 squared and so on: the two terms before the guard.
P_base(c) == BSub(I64(c.t_fine), I64(128000))

P_var2(c) ==
    LET v  == P_base(c)
        a  == BMul(BMul(v, v), I64(c.dig_P6))
        b  == BAdd(a, BShl(BMul(v, I64(c.dig_P5)), 17))
    IN  BAdd(b, BShl(I64(c.dig_P4), 35))

\* The denominator: var1 as it stands at the test var1 == 0.
P_var1(c) ==
    LET v  == P_base(c)
        a  == BAdd(BSar(BMul(BMul(v, v), I64(c.dig_P3)), 8),
                   BShl(BMul(v, I64(c.dig_P2)), 12))
    IN  BSar(BMul(BAdd(BShl(I64(1), 47), a), I64(c.dig_P1)), 33)

\* The statements after the guard; num / den is the division.
P_numerator(adc_P, c) ==
    BMul(BSub(BShl(I64(1048576 - adc_P), 31), P_var2(c)), I64(3125))

P_after(q, c) ==
    LET s13  == BSar(q, 13)
        var1 == BSar(BMul(BMul(I64(c.dig_P9), s13), s13), 25)
        var2 == BSar(BMul(I64(c.dig_P8), q), 19)
    IN  BAdd(BSar(BAdd(BAdd(q, var1), var2), 8), BShl(I64(c.dig_P7), 4))

\* divided: the division was evaluated; ub: its result was undefined;
\* q: the quotient; p: the value returned, in 1/256 Pa.
P_result(ub, q, c) ==
    [divided |-> TRUE, ub |-> ub, q |-> q, p |-> P_after(q, c)]

P_divide(num, den, c) == P_result(DivUndefined(num, den), BDiv(num, den), c)

P_zero == [divided |-> FALSE, ub |-> FALSE, q |-> BZero, p |-> BZero]

\* compensate_P without the test var1 == 0.
compensate_P_NoGuard(adc_P, c) == P_divide(P_numerator(adc_P, c), P_var1(c), c)

compensate_P(adc_P, c) ==
    LET var1 == P_var1(c)
    IN  IF var1 = BZero THEN P_zero ELSE P_divide(P_numerator(adc_P, c), var1, c)

bme280_comp_P(adc_P, c) ==
    LET var1 == P_var1(c)
    IN  IF var1 = BZero THEN P_zero ELSE P_divide(P_numerator(adc_P, c), var1, c)

\* The first factor of the humidity product.
H_left(adc_H, c, x) ==
    Sar32(Add32(Sub32(Sub32(Shl32(adc_H, 14), Shl32(c.dig_H4, 20)),
                      Mul32(c.dig_H5, x)),
                16384), 15)

\* The inner term of the second factor, up to "+ 2097152".
H_inner(c, x) ==
    Add32(Sar32(Mul32(Sar32(Mul32(x, c.dig_H6), 10),
                      Add32(Sar32(Mul32(x, c.dig_H3), 11), 32768)), 10),
          2097152)

\* v - (((((v >> 15) * (v >> 15)) >> 7) * H1) >> 4)
H_correct(v, c) ==
    Sub32(v, Sar32(Mul32(Sar32(Mul32(Sar32(v, 15), Sar32(v, 15)), 7), c.dig_H1), 4))

\* bme280.c: the value before the clamp; the second factor is
\* (inner * H2 + 8192) >> 14.
H_raw(adc_H, c) ==
    LET x == Sub32(c.t_fine, 76800)
        v == Mul32(H_left(adc_H, c, x),
                   Sar32(Add32(Mul32(H_inner(c, x), c.dig_H2), 8192), 14))
    IN  H_correct(v, c)

\* bpbme280.c: the value before the clamp; the second factor is
\* (inner * (H2 + 8192)) >> 14.
H_raw_bp(adc_H, c) ==
    LET x == Sub32(c.t_fine, 76800)
        v == Mul32(H_left(adc_H, c, x),
                   Sar32(Mul32(H_inner(c, x), Add32(c.dig_H2, 8192)), 14))
    IN  H_correct(v, c)

ClampLow(v) == IF v < 0 THEN 0 ELSE v

\* ClampHigh without the upper limit.
ClampHigh_Unclamped(v) == v

ClampHigh(v) == IF v > HumMax THEN HumMax ELSE v

compensate_H(adc_H, c) ==
    Sar32(ClampHigh(ClampLow(H_raw(adc_H, c))), 12)

bme280_comp_H(adc_H, c) ==
    Sar32(ClampHigh(ClampLow(H_raw_bp(adc_H, c))), 12)

\* ------------------------------------------------------------------------
\* The sensor and the bus: bounded inputs
\* ------------------------------------------------------------------------

\* How many entries of each table below a run may meet.
NumBlocksA == 4
NumBlocksB == 3
NumSamples == 3
NumChipIds == 2

\* Contents of registers 0x88..0xA1.  The first is the calibration of the
\* data sheet's worked example (T1 = 27504 ... P9 = 6000, 0xA0 reserved and
\* zero, H1 = 75 at 0xA1); the second makes the pressure denominator zero
\* with P1 = 1; the third has P1 = 0; the others are byte patterns with the
\* top bit of the high byte set and clear.
BlockATable ==
    << << 112, 107, 67, 103, 24, 252, 125, 142, 67, 214, 208, 11, 39, 11,
          140, 0, 249, 255, 140, 60, 248, 198, 112, 23, 0, 75 >>,
       << 0, 0, 255, 127, 0, 0, 1, 0, 0, 128, 0, 128, 0, 0,
          0, 0, 0, 0, 0, 0, 0, 0, 0, 0, 255, 0 >>,
       << 0, 0, 0, 0, 0, 0, 0, 0, 0, 0, 0, 0, 0, 0,
          0, 0, 0, 0, 0, 0, 0, 0, 0, 0, 128, 1 >>,
       << 128, 255, 128, 255, 128, 255, 128, 255, 128, 255, 128, 255, 128, 255,
          128, 255, 128, 255, 128, 255, 128, 255, 128, 255, 128, 255 >>,
       << 255, 127, 255, 127, 255, 127, 255, 127, 255, 127, 255, 127, 255, 127,
          255, 127, 255, 127, 255, 127, 255, 127, 255, 127, 255, 127 >> >>

\* Contents of registers 0xE1..0xE7: the worked example (H2 = 362, H4 = 331,
\* H6 = 30), the packing example 0x1E 0x3F 0x02 with extreme H2, H3 and H6,
\* and bytes with the top bits set.
BlockBTable ==
    << << 106, 1, 0, 20, 11, 0, 30 >>,
       << 255, 127, 255, 30, 63, 2, 128 >>,
       << 0, 128, 128, 255, 240, 255, 127 >>,
       << 255, 255, 1, 128, 8, 128, 255 >> >>

\* Contents of registers 0xF7..0xFE: the worked example (adc_P = 415148,
\* adc_T = 519888, adc_H = 30000), a saturated sample whose temperature
\* meets the zero denominator of the second block A, the reset values, and
\* a sample with only the unused low nibbles set.
SampleTable ==
    << << 101, 90, 192, 126, 237, 0, 117, 48 >>,
       << 255, 255, 255, 94, 188, 0, 255, 255 >>,
       << 128, 0, 0, 128, 0, 0, 128, 0 >>,
       << 0, 0, 15, 0, 0, 15, 0, 1 >> >>

\* Values of register 0xD0: BME280, BMP280, and a bus that reads zero.
ChipIdTable == << 96, 88, 0 >>

BlocksA == {BlockATable[k] : k \in 1 .. NumBlocksA}
BlocksB == {BlockBTable[k] : k \in 1 .. NumBlocksB}
Samples == {SampleTable[k] : k \in 1 .. NumSamples}
ChipIds == {ChipIdTable[k] : k \in 1 .. NumChipIds}

\* STATUS values: idle, im_update only, measuring, both.
StatusVals == {0, 1, 8, 9}

\* What write() of n bytes and read() of n bytes may return.
WriteRets(n) == {n, n - 1, -1}
ReadRets(n) == {n, n - 1, -1}

\* A transfer as the bus saw it: the register, the length asked for, what
\* write() (w) and read() (r) returned; r = 0 when read() was not called.
ReadXfer(reg, len, w, r) ==
    [op |-> "read", reg |-> reg, len |-> len, w |-> w, r |-> IF w = 1 THEN r ELSE 0]

WriteXfer(reg, val, w) == [op |-> "write", reg |-> reg, val |-> val, w |-> w]

\* The read of the status register, with the byte it delivered into st
\* (st stays 0 when the transfer failed).
StatusXfer(w, r, st) ==
    [op |-> "read", reg |-> REG_STATUS, len |-> 1, w |-> w,
     r |-> IF w = 1 THEN r ELSE 0, st |-> IF w = 1 /\ r = 1 THEN st ELSE 0]

XferFailed(x) ==
    IF x.op = "read" THEN x.w # 1 \/ x.r # x.len ELSE x.w # 2

\* {step} when one of the transfers xs of that step failed on the bus.
Failures(step, xs) ==
    IF \E k \in 1 .. Len(xs) : XferFailed(xs[k]) THEN {step} ELSE {}

\* The value of an object that has not been assigned yet.
Indeterminate == -1

CalibFields ==
    {"dig_T1", "dig_T2", "dig_T3", "dig_P1", "dig_P2", "dig_P3", "dig_P4",
     "dig_P5", "dig_P6", "dig_P7", "dig_P8", "dig_P9", "dig_H1", "dig_H2",
     "dig_H3", "dig_H4", "dig_H5", "dig_H6", "t_fine"}

\* ------------------------------------------------------------------------
\* State
\* ------------------------------------------------------------------------

VARIABLES
    prog,     \* which program runs: "bme280" or "bpbme280"
    pc,       \* the position in main
    i2c_fd,   \* main's descriptor variable, -1 when open failed
    fdOpen,   \* whether the descriptor is open in the kernel
    sensor,   \* the sensor's calibration blocks A, B and its chip-id
    chip,     \* main's id / chip byte
    calib,    \* main's bme280_calib_t
    i,        \* the polling loop's counter
    data,     \* the bytes the last raw read delivered
    adc,      \* the three raw values
    meas,     \* the three compensated values
    out,      \* what has been written to stdout and stderr, in order
    xfer,     \* the bus transfers of the last step
    failed,   \* the steps of this run in which the bus failed
    calls,    \* the compensation functions called, in order
    bp        \* the bundle-protocol side of bpbme280

vars == << prog, pc, i2c_fd, fdOpen, sensor, chip, calib, i, data, adc, meas,
           out, xfer, failed, calls, bp >>

Init ==
    /\ prog \in {"bme280", "bpbme280"}
    /\ pc = "start"
    /\ i2c_fd = Indeterminate
    /\ fdOpen = FALSE
    /\ sensor \in [A : BlocksA, B : BlocksB, id : ChipIds]
    /\ chip = 0
    /\ calib = [f \in CalibFields |-> Indeterminate]
    /\ i = 0
    /\ data = << >>
    /\ adc = [T |-> Indeterminate, P |-> Indeterminate, H |-> Indeterminate]
    /\ meas = [T |-> Indeterminate, P |-> P_zero, H |-> Indeterminate]
    /\ out = << >>
    /\ xfer = << >>
    /\ failed = {}
    /\ calls = << >>
    /\ bp = [attached |-> FALSE, attendant |-> FALSE, xn |-> FALSE,
             json |-> FALSE, zco |-> FALSE, send_calls |-> 0, sent |-> 0]

\* ------------------------------------------------------------------------
\* bme280.c: main
\* ------------------------------------------------------------------------

\* close(fd); return 1;
M_Abort(msg) ==
    /\ fdOpen' = FALSE
    /\ out' = Append(out, msg)
    /\ pc' = "exit"

\* open(i2c_dev, O_RDWR)
M_Open ==
    /\ prog = "bme280" /\ pc = "start"
    /\ \E ok \in BOOLEAN :
        IF ok
        THEN /\ i2c_fd' = 3 /\ fdOpen' = TRUE /\ pc' = "ioctl"
             /\ UNCHANGED out
        ELSE /\ i2c_fd' = -1 /\ pc' = "exit"
             /\ out' = Append(out, "error")
             /\ UNCHANGED fdOpen
    /\ UNCHANGED << prog, sensor, chip, calib, i, data, adc, meas, xfer, failed,
                    calls, bp >>

\* ioctl(fd, I2C_SLAVE, addr)
M_SetAddr ==
    /\ prog = "bme280" /\ pc = "ioctl"
    /\ \E ok \in BOOLEAN :
        IF ok
        THEN /\ pc' = "chipid" /\ UNCHANGED << fdOpen, out, failed >>
        ELSE /\ M_Abort("error") /\ failed' = failed \cup {"ioctl"}
    /\ UNCHANGED << prog, i2c_fd, sensor, chip, calib, i, data, adc, meas, xfer,
                    calls, bp >>

\* M_AfterChipId with a mismatch ending the run.
M_AfterChipId_Fatal(id) == IF id = BME280_CHIP_ID THEN "calib" ELSE "exit"

\* Where main goes once the chip-id has been read: a mismatch is reported
\* and the run goes on.
M_AfterChipId(id) == "calib"

\* i2c_read_reg(fd, REG_ID, &id) and the chip-id test
M_ChipId ==
    /\ prog = "bme280" /\ pc = "chipid"
    /\ \E w \in WriteRets(1), r \in ReadRets(1) :
        /\ xfer' = << ReadXfer(REG_ID, 1, w, r) >>
        /\ failed' = failed \cup Failures("chipid", << ReadXfer(REG_ID, 1, w, r) >>)
        /\ IF i2c_read_reg(w, r) < 0
           THEN /\ M_Abort("error")
                /\ UNCHANGED chip
           ELSE /\ chip' = sensor.id
                /\ out' = Append(out, IF sensor.id # BME280_CHIP_ID
                                      THEN "warning" ELSE "detected")
                /\ pc' = M_AfterChipId(sensor.id)
                /\ UNCHANGED fdOpen
    /\ UNCHANGED << prog, i2c_fd, sensor, calib, i, data, adc, meas, calls, bp >>

\* read_calibration(fd, &calib)
M_Calib ==
    /\ prog = "bme280" /\ pc = "calib"
    /\ \E w1 \in WriteRets(1), r1 \in ReadRets(LenCalib00),
          w2 \in WriteRets(1), r2 \in ReadRets(LenCalib26) :
        LET x1  == ReadXfer(CALIB00, LenCalib00, w1, r1)
            x2  == ReadXfer(CALIB26, LenCalib26, w2, r2)
            ok1 == i2c_read_regs(w1, r1, LenCalib00)
            ok2 == i2c_read_regs(w2, r2, LenCalib26)
            res == read_calibration(calib, ok1, ok2, sensor.A, sensor.B)
        IN  /\ xfer' = IF ok1 < 0 THEN << x1 >> ELSE << x1, x2 >>
            /\ failed' = failed \cup
                    Failures("calib", IF ok1 < 0 THEN << x1 >> ELSE << x1, x2 >>)
            /\ calib' = res.c
            /\ IF res.ret < 0
               THEN M_Abort("error")
               ELSE pc' = "config" /\ UNCHANGED << fdOpen, out >>
    /\ UNCHANGED << prog, i2c_fd, sensor, chip, i, data, adc, meas, calls, bp >>

\* The three register writes of the configuration, w[k] being what the
\* k-th write() returned: the result and the writes that were issued.
ConfigWrite(k, w) ==
    IF k = 1 THEN WriteXfer(REG_CTRL_HUM, 1, w)
    ELSE IF k = 2 THEN WriteXfer(REG_CTRL_MEAS, 39, w)
    ELSE WriteXfer(REG_CONFIG, 128, w)

\* configure_bme280 issuing all three writes whatever they return.
configure_bme280_NoStop(w) ==
    [ret |-> IF i2c_write_reg(w[1]) < 0 \/ i2c_write_reg(w[2]) < 0
                \/ i2c_write_reg(w[3]) < 0 THEN -1 ELSE 0,
     xfer |-> << ConfigWrite(1, w[1]), ConfigWrite(2, w[2]), ConfigWrite(3, w[3]) >>]

configure_bme280(w) ==
    IF i2c_write_reg(w[1]) < 0
    THEN [ret |-> -1, xfer |-> << ConfigWrite(1, w[1]) >>]
    ELSE IF i2c_write_reg(w[2]) < 0
    THEN [ret |-> -1, xfer |-> << ConfigWrite(1, w[1]), ConfigWrite(2, w[2]) >>]
    ELSE [ret |-> IF i2c_write_reg(w[3]) < 0 THEN -1 ELSE 0,
          xfer |-> << ConfigWrite(1, w[1]), ConfigWrite(2, w[2]),
                      ConfigWrite(3, w[3]) >>]

bme280_configure(w) ==
    IF i2c_write_reg(w[1]) < 0
    THEN [ret |-> -1, xfer |-> << ConfigWrite(1, w[1]) >>]
    ELSE IF i2c_write_reg(w[2]) < 0
    THEN [ret |-> -1, xfer |-> << ConfigWrite(1, w[1]), ConfigWrite(2, w[2]) >>]
    ELSE [ret |-> IF i2c_write_reg(w[3]) < 0 THEN -1 ELSE 0,
          xfer |-> << ConfigWrite(1, w[1]), ConfigWrite(2, w[2]),
                      ConfigWrite(3, w[3]) >>]

\* configure_bme280(fd), then usleep(100000)
M_Config ==
    /\ prog = "bme280" /\ pc = "config"
    /\ \E w \in [1 .. 3 -> WriteRets(2)] :
        LET res == configure_bme280(w)
        IN  /\ xfer' = res.xfer
            /\ failed' = failed \cup Failures("config", res.xfer)
            /\ IF res.ret < 0
               THEN M_Abort("error")
               ELSE pc' = "poll" /\ UNCHANGED << fdOpen, out >>
    /\ i' = 0
    /\ UNCHANGED << prog, i2c_fd, sensor, chip, calib, data, adc, meas, calls, bp >>

\* st & 0x08
Measuring(st) == ((st \div 8) % 2) * 8

\* A failed status read ends the run.
PollNext_FailOnError(k, n, ret, st) ==
    IF ret < 0 THEN "cleanup"
    ELSE IF Measuring(st) = 0 THEN "raw"
    ELSE IF k + 1 < n THEN "poll"
    ELSE "raw"

\* One turn of the polling loop with counter k and limit n: "raw" when the
\* loop is left (break, or k + 1 reaches n), "poll" when it goes round.
PollNext(k, n, ret, st) ==
    IF ret = 0 /\ Measuring(st) = 0 THEN "raw"
    ELSE IF k + 1 < n THEN "poll"
    ELSE "raw"

\* for (int i = 0; i < 10; i++) { read STATUS; break if idle; usleep }
M_Poll ==
    /\ prog = "bme280" /\ pc = "poll" /\ i < PollLimitBme280
    /\ \E w \in WriteRets(1), r \in ReadRets(1), st \in StatusVals :
        LET ret == i2c_read_reg(w, r)
            nxt == PollNext(i, PollLimitBme280, ret, st)
        IN  /\ xfer' = << StatusXfer(w, r, st) >>
            /\ failed' = failed \cup Failures("status", << StatusXfer(w, r, st) >>)
            /\ pc' = nxt
            /\ i' = IF nxt = "poll" THEN i + 1 ELSE 0
    /\ UNCHANGED << prog, i2c_fd, fdOpen, sensor, chip, calib, data, adc, meas,
                    out, calls, bp >>

\* The bytes a read of len bytes left in the buffer.
Delivered(old, bytes, w, r) ==
    IF w = 1 /\ r > 0 THEN SubSeq(bytes, 1, r) ELSE old

\* M_AfterRaw with the pressure compensated first.
M_AfterRaw_PressureFirst == "compP"

\* The order of the three compensation calls of main.
M_AfterRaw == "compT"
M_AfterT == "compP"
M_AfterP == "compH"
M_AfterH == "print"

\* read_raw_data(fd, &adc_T, &adc_P, &adc_H)
M_Raw ==
    /\ prog = "bme280" /\ pc = "raw"
    /\ \E w \in WriteRets(1), r \in ReadRets(LenRaw), sample \in Samples :
        LET res == read_raw_data(adc, i2c_read_regs(w, r, LenRaw), sample)
        IN  /\ xfer' = << ReadXfer(REG_PRESS_MSB, LenRaw, w, r) >>
            /\ failed' = failed \cup
                    Failures("raw", << ReadXfer(REG_PRESS_MSB, LenRaw, w, r) >>)
            /\ data' = Delivered(data, sample, w, r)
            /\ adc' = res.adc
            /\ IF res.ret < 0
               THEN M_Abort("error")
               ELSE pc' = M_AfterRaw /\ UNCHANGED << fdOpen, out >>
    /\ UNCHANGED << prog, i2c_fd, sensor, chip, calib, i, meas, calls, bp >>

\* double temp_c = compensate_T(adc_T, &calib);
M_CompT ==
    /\ prog = "bme280" /\ pc = "compT"
    /\ LET res == compensate_T(adc.T, calib)
       IN  /\ calib' = res.c
           /\ meas' = [meas EXCEPT !.T = res.T]
    /\ calls' = Append(calls, "T")
    /\ pc' = M_AfterT
    /\ xfer' = << >>
    /\ UNCHANGED << prog, i2c_fd, fdOpen, sensor, chip, i, data, adc, out, failed, bp >>

\* double pres_hpa = compensate_P(adc_P, &calib);  Where the division has
\* no defined result the run goes on with some quotient or is killed.
M_CompP ==
    /\ prog = "bme280" /\ pc = "compP"
    /\ LET res == compensate_P(adc.P, calib)
       IN  /\ meas' = [meas EXCEPT !.P = res]
           /\ pc' \in IF res.ub THEN {M_AfterP, "killed"} ELSE {M_AfterP}
    /\ calls' = Append(calls, "P")
    /\ xfer' = << >>
    /\ UNCHANGED << prog, i2c_fd, fdOpen, sensor, chip, calib, i, data, adc, out,
                    failed, bp >>

\* double hum_rh = compensate_H(adc_H, &calib);
M_CompH ==
    /\ prog = "bme280" /\ pc = "compH"
    /\ meas' = [meas EXCEPT !.H = compensate_H(adc.H, calib)]
    /\ calls' = Append(calls, "H")
    /\ pc' = M_AfterH
    /\ xfer' = << >>
    /\ UNCHANGED << prog, i2c_fd, fdOpen, sensor, chip, calib, i, data, adc, out,
                    failed, bp >>

\* the three printf calls, close(fd), return 0
M_Print ==
    /\ prog = "bme280" /\ pc = "print"
    /\ out' = Append(out, "reading")
    /\ fdOpen' = FALSE
    /\ pc' = "exit"
    /\ UNCHANGED << prog, i2c_fd, sensor, chip, calib, i, data, adc, meas, xfer,
                    failed, calls, bp >>

M_Next ==
    \/ M_Open \/ M_SetAddr \/ M_ChipId \/ M_Calib \/ M_Config \/ M_Poll
    \/ M_Raw \/ M_CompT \/ M_CompP \/ M_CompH \/ M_Print

\* ------------------------------------------------------------------------
\* bpbme280.c: main and compose_json
\* ------------------------------------------------------------------------

\* argc < 3 and ttl <= 0: usage or complaint, return 0
B_Args ==
    /\ prog = "bpbme280" /\ pc = "start"
    /\ \E a \in {"usage", "badttl", "ok"} :
        IF a = "ok"
        THEN pc' = "attach" /\ UNCHANGED out
        ELSE pc' = "exit" /\ out' = Append(out, a)
    /\ UNCHANGED << prog, i2c_fd, fdOpen, sensor, chip, calib, i, data, adc, meas,
                    xfer, failed, calls, bp >>

\* bp_attach(), ionStartAttendant(&attendant), bp_get_sdr()
B_Attach ==
    /\ prog = "bpbme280" /\ pc = "attach"
    /\ \E a \in {"noattach", "noattendant", "ok"} :
        IF a = "ok"
        THEN /\ bp' = [bp EXCEPT !.attached = TRUE, !.attendant = TRUE]
             /\ pc' = "open"
        ELSE /\ pc' = "exit" /\ UNCHANGED bp
    /\ UNCHANGED << prog, i2c_fd, fdOpen, sensor, chip, calib, i, data, adc, meas,
                    out, xfer, failed, calls >>

\* open(i2c_dev, O_RDWR)
B_Open ==
    /\ prog = "bpbme280" /\ pc = "open"
    /\ \E ok \in BOOLEAN :
        IF ok
        THEN /\ i2c_fd' = 3 /\ fdOpen' = TRUE /\ pc' = "ioctl"
             /\ UNCHANGED out
        ELSE /\ i2c_fd' = -1 /\ pc' = "cleanup"
             /\ out' = Append(out, "error")
             /\ UNCHANGED fdOpen
    /\ UNCHANGED << prog, sensor, chip, calib, i, data, adc, meas, xfer, failed,
                    calls, bp >>

\* ioctl(i2c_fd, I2C_SLAVE, i2c_addr)
B_SetAddr ==
    /\ prog = "bpbme280" /\ pc = "ioctl"
    /\ \E ok \in BOOLEAN :
        IF ok
        THEN /\ pc' = "chipid" /\ UNCHANGED << out, failed >>
        ELSE /\ pc' = "cleanup" /\ out' = Append(out, "error")
             /\ failed' = failed \cup {"ioctl"}
    /\ UNCHANGED << prog, i2c_fd, fdOpen, sensor, chip, calib, i, data, adc, meas,
                    xfer, calls, bp >>

\* Where main goes after the chip-id read, ret being its result: a failed
\* read and a mismatch are both reported and the run goes on.
B_AfterChipId(ret, id) == "calib"

\* i2c_read_reg(i2c_fd, REG_ID, &chip) < 0 || chip != BME280_CHIP_ID
B_ChipId ==
    /\ prog = "bpbme280" /\ pc = "chipid"
    /\ \E w \in WriteRets(1), r \in ReadRets(1) :
        LET ret == i2c_read_reg(w, r)
            id  == IF ret = 0 THEN sensor.id ELSE chip
        IN  /\ xfer' = << ReadXfer(REG_ID, 1, w, r) >>
            /\ chip' = id
            /\ failed' = failed \cup Failures("chipid", << ReadXfer(REG_ID, 1, w, r) >>)
            /\ out' = IF ret < 0 \/ id # BME280_CHIP_ID
                      THEN Append(out, "warning") ELSE out
            /\ pc' = B_AfterChipId(ret, id)
    /\ UNCHANGED << prog, i2c_fd, fdOpen, sensor, calib, i, data, adc, meas, calls, bp >>

\* bme280_read_calib(i2c_fd, &calib)
B_Calib ==
    /\ prog = "bpbme280" /\ pc = "calib"
    /\ \E w1 \in WriteRets(1), r1 \in ReadRets(LenCalib00),
          w2 \in WriteRets(1), r2 \in ReadRets(LenCalib26) :
        LET x1  == ReadXfer(CALIB00, LenCalib00, w1, r1)
            x2  == ReadXfer(CALIB26, LenCalib26, w2, r2)
            ok1 == i2c_read_regs(w1, r1, LenCalib00)
            ok2 == i2c_read_regs(w2, r2, LenCalib26)
            res == bme280_read_calib(calib, ok1, ok2, sensor.A, sensor.B)
        IN  /\ xfer' = IF ok1 < 0 THEN << x1 >> ELSE << x1, x2 >>
            /\ failed' = failed \cup
                    Failures("calib", IF ok1 < 0 THEN << x1 >> ELSE << x1, x2 >>)
            /\ calib' = res.c
            /\ pc' = IF res.ret < 0 THEN "cleanup" ELSE "config"
    /\ UNCHANGED << prog, i2c_fd, fdOpen, sensor, chip, i, data, adc, meas, out,
                    calls, bp >>

\* bme280_configure(i2c_fd), then usleep(100000)
B_Config ==
    /\ prog = "bpbme280" /\ pc = "config"
    /\ \E w \in [1 .. 3 -> WriteRets(2)] :
        LET res == bme280_configure(w)
        IN  /\ xfer' = res.xfer
            /\ failed' = failed \cup Failures("config", res.xfer)
            /\ pc' = IF res.ret < 0 THEN "cleanup" ELSE "poll"
    /\ i' = 0
    /\ UNCHANGED << prog, i2c_fd, fdOpen, sensor, chip, calib, data, adc, meas, out,
                    calls, bp >>

\* for (int i = 0; i < 5; i++) { read STATUS; break if idle; usleep }
B_Poll ==
    /\ prog = "bpbme280" /\ pc = "poll" /\ i < PollLimitBpbme280
    /\ \E w \in WriteRets(1), r \in ReadRets(1), st \in StatusVals :
        LET ret == i2c_read_reg(w, r)
            nxt == PollNext(i, PollLimitBpbme280, ret, st)
        IN  /\ xfer' = << StatusXfer(w, r, st) >>
            /\ failed' = failed \cup Failures("status", << StatusXfer(w, r, st) >>)
            /\ pc' = nxt
            /\ i' = IF nxt = "poll" THEN i + 1 ELSE 0
    /\ UNCHANGED << prog, i2c_fd, fdOpen, sensor, chip, calib, data, adc, meas,
                    out, calls, bp >>

\* The order of the three compensation calls of compose_json.
B_AfterRaw == "compT"
B_AfterT == "compP"
B_AfterP == "compH"
B_AfterH == "compose"

\* compose_json: bme280_read_raw(i2c_fd, &t_raw, &p_raw, &h_raw); on failure
\* compose_json returns -1 and main goes to cleanup
B_Raw ==
    /\ prog = "bpbme280" /\ pc = "raw"
    /\ \E w \in WriteRets(1), r \in ReadRets(LenRaw), sample \in Samples :
        LET res == bme280_read_raw(adc, i2c_read_regs(w, r, LenRaw), sample)
        IN  /\ xfer' = << ReadXfer(REG_PRESS_MSB, LenRaw, w, r) >>
            /\ failed' = failed \cup
                    Failures("raw", << ReadXfer(REG_PRESS_MSB, LenRaw, w, r) >>)
            /\ data' = Delivered(data, sample, w, r)
            /\ adc' = res.adc
            /\ pc' = IF res.ret < 0 THEN "cleanup" ELSE B_AfterRaw
    /\ UNCHANGED << prog, i2c_fd, fdOpen, sensor, chip, calib, i, meas, out, calls, bp >>

\* double tC = bme280_comp_T(t_raw, calib);
B_CompT ==
    /\ prog = "bpbme280" /\ pc = "compT"
    /\ LET res == bme280_comp_T(adc.T, calib)
       IN  /\ calib' = res.c
           /\ meas' = [meas EXCEPT !.T = res.T]
    /\ calls' = Append(calls, "T")
    /\ pc' = B_AfterT
    /\ xfer' = << >>
    /\ UNCHANGED << prog, i2c_fd, fdOpen, sensor, chip, i, data, adc, out, failed, bp >>

\* double pH = bme280_comp_P(p_raw, calib);
B_CompP ==
    /\ prog = "bpbme280" /\ pc = "compP"
    /\ LET res == bme280_comp_P(adc.P, calib)
       IN  /\ meas' = [meas EXCEPT !.P = res]
           /\ pc' \in IF res.ub THEN {B_AfterP, "killed"} ELSE {B_AfterP}
    /\ calls' = Append(calls, "P")
    /\ xfer' = << >>
    /\ UNCHANGED << prog, i2c_fd, fdOpen, sensor, chip, calib, i, data, adc, out,
                    failed, bp >>

\* double hR = bme280_comp_H(h_raw, calib);
B_CompH ==
    /\ prog = "bpbme280" /\ pc = "compH"
    /\ meas' = [meas EXCEPT !.H = bme280_comp_H(adc.H, calib)]
    /\ calls' = Append(calls, "H")
    /\ pc' = B_AfterH
    /\ xfer' = << >>
    /\ UNCHANGED << prog, i2c_fd, fdOpen, sensor, chip, calib, i, data, adc, out,
                    failed, bp >>

\* The rest of compose_json: the CPU figures, the time and snprintf, which
\* fails when the text does not fit the 256 bytes of json.
B_Compose ==
    /\ prog = "bpbme280" /\ pc = "compose"
    /\ \E fits \in BOOLEAN :
        IF fits
        THEN bp' = [bp EXCEPT !.json = TRUE] /\ pc' = "printjson"
        ELSE pc' = "cleanup" /\ UNCHANGED bp
    /\ UNCHANGED << prog, i2c_fd, fdOpen, sensor, chip, calib, i, data, adc, meas,
                    out, xfer, failed, calls >>

\* printf("JSON: %s\n", json)
B_PrintJson ==
    /\ prog = "bpbme280" /\ pc = "printjson"
    /\ out' = Append(out, "json")
    /\ pc' = "sdr_begin"
    /\ UNCHANGED << prog, i2c_fd, fdOpen, sensor, chip, calib, i, data, adc, meas,
                    xfer, failed, calls, bp >>

\* CHKZERO(sdr_begin_xn(sdr)): ION's CHKZERO(e) is
\* "if (!(e) && iEnd(#e)) return 0", so a transaction that cannot be
\* started makes main return at once.
B_SdrBegin ==
    /\ prog = "bpbme280" /\ pc = "sdr_begin"
    /\ \E ok \in BOOLEAN :
        IF ok
        THEN bp' = [bp EXCEPT !.xn = TRUE] /\ pc' = "sdr_end"
        ELSE pc' = "exit" /\ UNCHANGED bp
    /\ UNCHANGED << prog, i2c_fd, fdOpen, sensor, chip, calib, i, data, adc, meas,
                    out, xfer, failed, calls >>

\* sdr_malloc, sdr_write, sdr_end_xn(sdr) < 0
B_SdrEnd ==
    /\ prog = "bpbme280" /\ pc = "sdr_end"
    /\ bp' = [bp EXCEPT !.xn = FALSE]
    /\ \E ok \in BOOLEAN : pc' = IF ok THEN "zco" ELSE "cleanup"
    /\ UNCHANGED << prog, i2c_fd, fdOpen, sensor, chip, calib, i, data, adc, meas,
                    out, xfer, failed, calls >>

\* ionCreateZco(...)
B_Zco ==
    /\ prog = "bpbme280" /\ pc = "zco"
    /\ \E ok \in BOOLEAN :
        IF ok
        THEN bp' = [bp EXCEPT !.zco = TRUE] /\ pc' = "send"
        ELSE pc' = "cleanup" /\ UNCHANGED bp
    /\ UNCHANGED << prog, i2c_fd, fdOpen, sensor, chip, calib, i, data, adc, meas,
                    out, xfer, failed, calls >>

\* Going round to bp_send once more.
B_AfterSend_Again == "send"

\* Where main goes after bp_send, sent or not: the cleanup label.
B_AfterSend == "cleanup"

\* bp_send(...) < 1, then PUTS("[i] bpbme280 sent one bundle and will exit.")
B_Send ==
    /\ prog = "bpbme280" /\ pc = "send"
    /\ \E ok \in BOOLEAN :
        IF ok
        THEN /\ bp' = [bp EXCEPT !.send_calls = @ + 1, !.sent = @ + 1]
             /\ out' = Append(out, "sent")
        ELSE /\ bp' = [bp EXCEPT !.send_calls = @ + 1]
             /\ UNCHANGED out
    /\ pc' = B_AfterSend
    /\ UNCHANGED << prog, i2c_fd, fdOpen, sensor, chip, calib, i, data, adc, meas,
                    xfer, failed, calls >>

\* cleanup: ionStopAttendant, bp_detach(), if (i2c_fd >= 0) close(i2c_fd)
B_Cleanup ==
    /\ prog = "bpbme280" /\ pc = "cleanup"
    /\ bp' = [bp EXCEPT !.attendant = FALSE, !.attached = FALSE]
    /\ fdOpen' = IF i2c_fd >= 0 THEN FALSE ELSE fdOpen
    /\ pc' = "exit"
    /\ UNCHANGED << prog, i2c_fd, sensor, chip, calib, i, data, adc, meas, out,
                    xfer, failed, calls >>

B_Next ==
    \/ B_Args \/ B_Attach \/ B_Open \/ B_SetAddr \/ B_ChipId \/ B_Calib
    \/ B_Config \/ B_Poll \/ B_Raw \/ B_CompT \/ B_CompP \/ B_CompH
    \/ B_Compose \/ B_PrintJson \/ B_SdrBegin \/ B_SdrEnd \/ B_Zco \/ B_Send
    \/ B_Cleanup

Next == M_Next \/ B_Next

Spec == Init /\ [][Next]_vars

\* ------------------------------------------------------------------------
\* Properties
\* ------------------------------------------------------------------------

\* The calibration load has succeeded: T1 is unsigned once assigned.
Loaded == calib.dig_T1 # Indeterminate

\* The 16-bit little-endian and the 8-bit encodings of a value.
Enc16(v) == << v % 256, (v \div 256) % 256 >>
Enc8(v) == v % 256

\* The 16-bit fields of block A in register order; field k is at offset
\* 2 (k - 1).
WordFields ==
    << "dig_T1", "dig_T2", "dig_T3", "dig_P1", "dig_P2", "dig_P3", "dig_P4",
       "dig_P5", "dig_P6", "dig_P7", "dig_P8", "dig_P9" >>

\* A reading or the JSON text has been printed.
Printed == \E k \in 1 .. Len(out) : out[k] \in {"reading", "json"}

\* Nothing was measured, printed or sent.
NoMeasurement == calls = << >> /\ ~Printed /\ bp.sent = 0

\* The value humidity compensation holds before the clamps, in this state.
HumidityBeforeClamp ==
    IF prog = "bme280" THEN H_raw(adc.H, calib) ELSE H_raw_bp(adc.H, calib)

\* C1: after a successful load H1 is the 26th byte of block A (offset 25,
\* register 0xA1), in both loaders.
C1_H1IsByte25 == Loaded => calib.dig_H1 = At(sensor.A, 25)

C1_Witness == Loaded /\ At(sensor.A, 24) # At(sensor.A, 25)

\* C2: once humidity has been compensated, in either program, the clamped
\* integer is within 0 .. 419430400, so the value returned (the integer
\* shifted right by 12, over 1024) is within 0 .. 100 %RH.
C2_HumidityClamped ==
    Len(calls) = 3 => 0 <= meas.H /\ meas.H <= HumMax \div Pow2(12)

C2_Witness == Len(calls) = 3 /\ HumidityBeforeClamp > HumMax

\* C3: once pressure has been compensated, in either program: when the
\* denominator var1 is 0, which it is whenever P1 is 0, the result is 0 and
\* no division was evaluated; and a division that was evaluated had a
\* non-zero denominator and a defined result.
C3_NoDivisionByZero ==
    Len(calls) >= 2 =>
        /\ calib.dig_P1 = 0 => P_var1(calib) = BZero
        /\ P_var1(calib) = BZero => meas.P = P_zero
        /\ meas.P.divided => P_var1(calib) # BZero /\ ~meas.P.ub

C3_Witness == Len(calls) >= 2 /\ P_var1(calib) = BZero /\ calib.dig_P1 # 0

\* C4: a calibration load in which the read of block A or of block B fails
\* (short count, or the register-select write fails) leaves every field of
\* the calibration structure as it was and makes main give up.
C4_FailedLoadWritesNothing ==
    [][(pc = "calib" /\ Failures("calib", xfer') # {})
          => (calib' = calib /\ pc' \in {"exit", "cleanup"})]_vars

C4_Witness ==
    /\ "calib" \in failed /\ Len(xfer) = 2
    /\ ~XferFailed(xfer[1]) /\ xfer[2].r = LenCalib26 - 1
    /\ calib = [f \in CalibFields |-> Indeterminate]

\* C5: in either program the compensation calls are temperature, then
\* pressure, then humidity, and from the first call on t_fine holds the
\* value temperature compensation computed from this sample.
C5_TemperatureFirst ==
    /\ calls \in {<< >>, << "T" >>, << "T", "P" >>, << "T", "P", "H" >>}
    /\ Len(calls) >= 1 => calib.t_fine = T_fine(adc.T, calib)

C5_Witness == calls = << "T", "P", "H" >> /\ prog = "bpbme280" /\ bp.json

\* C6: when main has returned, the descriptor it opened has been closed,
\* whichever way main was left.
C6_ClosedAtExit == pc = "exit" => ~fdOpen

C6_Witness == pc = "exit" /\ i2c_fd >= 0 /\ bp.sent = 1 /\ ~fdOpen

\* C7: a run in which any register transfer failed, the chip-id read and
\* the status reads included, measures nothing, prints nothing and sends
\* nothing.
C7_AnyFailureAborts == failed # {} => NoMeasurement

\* The steps whose failure ends the run: the calibration load, the
\* configuration and the raw read, and in bme280 the chip-id read.
CoreSteps ==
    {"calib", "config", "raw"} \cup (IF prog = "bme280" THEN {"chipid"} ELSE {})

\* C7 as amended: a run in which a transfer of the calibration load, the
\* configuration or the raw read failed (in bme280 also the chip-id read)
\* measures nothing, prints nothing and sends nothing.
C7_CoreFailureAborts == failed \cap CoreSteps # {} => NoMeasurement

C7_Witness == failed = {"raw"} /\ pc = "exit"

\* C8: a chip-id read that succeeds takes main to the calibration load
\* whatever the byte is, with at most one line written and the descriptor
\* left open.
C8_MismatchGoesOn ==
    [][(pc = "chipid" /\ Len(xfer') = 1 /\ ~XferFailed(xfer'[1]))
          => /\ pc' = "calib" /\ chip' = sensor.id /\ fdOpen' = fdOpen
             /\ \/ out' = out
                \/ \E line \in {"warning", "detected"} : out' = Append(out, line)]_vars

C8_Witness ==
    chip = sensor.id /\ chip # BME280_CHIP_ID /\ "chipid" \notin failed
        /\ Len(calls) = 3

\* C9: after a successful load every simple field re-encodes to the bytes
\* it was decoded from: T1 and P1 as unsigned and T2, T3, P2 .. P9 and H2 as
\* signed 16-bit little-endian pairs, H1 and H3 as unsigned and H6 as
\* signed bytes.
C9_RoundTrip ==
    Loaded =>
        /\ \A k \in 1 .. 12 :
              Enc16(calib[WordFields[k]])
                  = << At(sensor.A, 2 * (k - 1)), At(sensor.A, 2 * k - 1) >>
        /\ Enc16(calib.dig_H2) = << At(sensor.B, 0), At(sensor.B, 1) >>
        /\ Enc8(calib.dig_H1) = At(sensor.A, 24)
        /\ Enc8(calib.dig_H3) = At(sensor.B, 2)
        /\ Enc8(calib.dig_H6) = At(sensor.B, 6)
        /\ \A k \in {1, 4} : calib[WordFields[k]] \in 0 .. 65535
        /\ \A k \in (1 .. 12) \ {1, 4} : calib[WordFields[k]] \in -32768 .. 32767
        /\ calib.dig_H2 \in -32768 .. 32767
        /\ calib.dig_H1 \in 0 .. 255 /\ calib.dig_H3 \in 0 .. 255
        /\ calib.dig_H6 \in -128 .. 127

C9_Witness ==
    Loaded /\ calib.dig_T1 > 32767 /\ calib.dig_T2 < 0 /\ calib.dig_H6 < 0

\* C10: after a successful load H4 is byte 3 of block B shifted left by
\* four with the low nibble of byte 4, and H5 is byte 5 shifted left by four
\* with the high nibble of byte 4; the bytes 0x1E, 0x3F, 0x02 give 495 and
\* 35.
C10_Packing ==
    Loaded =>
        /\ calib.dig_H4 = At(sensor.B, 3) * 16 + (At(sensor.B, 4) % 16)
        /\ calib.dig_H5 = At(sensor.B, 5) * 16 + (At(sensor.B, 4) \div 16)
        /\ << At(sensor.B, 3), At(sensor.B, 4), At(sensor.B, 5) >> = << 30, 63, 2 >>
              => calib.dig_H4 = 495 /\ calib.dig_H5 = 35

C10_Witness == Loaded /\ calib.dig_H4 = 495 /\ calib.dig_H5 = 35


\* ------------------------------------------------------------------------
\* Temperature compensation as a function of the raw value
\* ------------------------------------------------------------------------

\* The calibration of the data sheet's worked example is loaded.
ReferenceT ==
    calib.dig_T1 = 27504 /\ calib.dig_T2 = 26435 /\ calib.dig_T3 = -1000

\* 20-bit raw temperatures the result is compared at: both ends, the steps
\* of >> 3 and >> 4, T1 << 4 of the reference, the reference sample and
\* values spread over the range.
RawProbes ==
    {0, 7, 8, 15, 16, 262144, 440064, 519888, 519904, 524288, 786432, 1048575}

\* The hundredths of a degree computed from raw value a with the loaded
\* calibration.
Centi(a) == T_centi(T_fine(a, calib))

\* C11 (as stated): for every calibration and raw values a <= b whose
\* computation stays within 32 bits, the centi-degree result for a is at
\* most the one for b.
C11_MonotonicAnyCalibration ==
    calls = << "T" >> =>
        \A a, b \in RawProbes \cup {adc.T} :
            (a <= b /\ ~T_Overflows(a, calib) /\ ~T_Overflows(b, calib))
                => Centi(a) <= Centi(b)

\* C11 (amended): with the reference calibration T1 = 27504, T2 = 26435,
\* T3 = -1000 no multiplication overflows for any 20-bit raw value compared,
\* the value computed by the call is the one for the raw sample, and for raw
\* values a <= b the centi-degree result for a is at most the one for b.
C11_MonotonicReference ==
    (calls = << "T" >> /\ ReferenceT) =>
        /\ meas.T = Centi(adc.T)
        /\ \A a \in RawProbes \cup {adc.T} : ~T_Overflows(a, calib)
        /\ \A a, b \in RawProbes \cup {adc.T} : a <= b => Centi(a) <= Centi(b)

\* The reference calibration has been used on a sample, and a smaller raw
\* value gives a strictly smaller result.
C11_Witness ==
    /\ calls = << "T" >> /\ ReferenceT
    /\ \E a \in RawProbes : a < adc.T /\ Centi(a) < meas.T

\* C12: with T1 = 27504, T2 = 26435, T3 = -1000 and adc_T = 519888 the
\* multiplications of var1 and var2 do not overflow 32 bits, t_fine is
\* 128422 and the result is 2508 hundredths of a degree.
C12_ReferenceTemperature ==
    (Len(calls) >= 1 /\ ReferenceT /\ adc.T = 519888) =>
        /\ ~T_Overflows(adc.T, calib)
        /\ calib.t_fine = 128422
        /\ meas.T = 2508

\* The reference sample has been compensated with the reference calibration.
C12_Witness ==
    Len(calls) >= 1 /\ ReferenceT /\ adc.T = 519888 /\ meas.T = 2508


\* ------------------------------------------------------------------------
\* The bundle
\* ------------------------------------------------------------------------

\* The position of line in what has been written, 0 when it is not there.
Where(line) ==
    IF \E k \in 1 .. Len(out) : out[k] = line
    THEN CHOOSE k \in 1 .. Len(out) : out[k] = line
    ELSE 0

\* C13: bp_send is called at most once in a run, only by bpbme280 and only
\* after the JSON text has been composed and printed, and it has been called
\* exactly once when the run has gone past a successful ionCreateZco (which
\* attach, open, calibration, configuration, raw read and JSON composition
\* precede).
C13_OneBundle ==
    /\ bp.send_calls <= 1
    /\ bp.sent <= bp.send_calls
    /\ bp.send_calls = 1 => prog = "bpbme280" /\ bp.json /\ Where("json") > 0
    /\ bp.sent = 1 => Where("json") < Where("sent")
    /\ (bp.zco /\ pc # "send") => bp.send_calls = 1
    /\ (pc = "exit" /\ bp.send_calls = 1) =>
            bp.zco /\ Len(calls) = 3 /\ failed \cap {"calib", "config", "raw"} = {}

\* A run has ended with the one bundle sent after the JSON line.
C13_Witness ==
    /\ pc = "exit" /\ bp.send_calls = 1 /\ bp.sent = 1
    /\ Where("json") > 0 /\ Where("sent") = Len(out)


\* ------------------------------------------------------------------------
\* The two copies of the humidity compensation
\* ------------------------------------------------------------------------

\* C14: for the raw humidity, the coefficients and the t_fine of any run,
\* bme280_comp_H of bpbme280.c and compensate_H of bme280.c return the same
\* value, which is the one the run computed.
C14_SameHumidity ==
    Len(calls) = 3 =>
        /\ bme280_comp_H(adc.H, calib) = compensate_H(adc.H, calib)
        /\ meas.H = compensate_H(adc.H, calib)

\* bpbme280 has compensated the humidity of the reference sample with the
\* reference coefficients H2 = 362, H4 = 331, H6 = 30.
C14_Witness ==
    /\ Len(calls) = 3 /\ prog = "bpbme280" /\ adc.H = 30000
    /\ calib.dig_H2 = 362 /\ calib.dig_H4 = 331 /\ calib.dig_H6 = 30 /\ ReferenceT
    /\ meas.H = bme280_comp_H(adc.H, calib)


\* ------------------------------------------------------------------------
\* Polling
\* ------------------------------------------------------------------------

\* The limit of the polling loop of the program that runs.
PollLimit == IF prog = "bme280" THEN PollLimitBme280 ELSE PollLimitBpbme280

\* The status read of this step succeeded and found bit 3 clear.
IdleSeen(x) == ~XferFailed(x) /\ Measuring(x.st) = 0

\* C15 (as stated): the status register is read at most 5 times, and a
\* polling step leads to another polling step or to the raw read only.
C15_AtMostFive ==
    [][pc = "poll" => (i < 5 /\ pc' \in {"poll", "raw"})]_vars

\* C15 (amended): polling starts only after the three configuration writes
\* succeeded; the status register is read at most 5 times by bpbme280 and at
\* most 10 times by bme280; the loop stops at the first successful read with
\* bit 3 clear and otherwise goes round until the limit; every way out of it
\* leads to the raw read, and a polling step closes nothing, prints nothing
\* and ends nothing.
C15_BoundedPolling ==
    [][pc = "poll" =>
        /\ "config" \notin failed
        /\ i < PollLimit
        /\ Len(xfer') = 1 /\ xfer'[1].op = "read" /\ xfer'[1].reg = REG_STATUS
        /\ pc' \in {"poll", "raw"}
        /\ pc' = "raw" <=> (IdleSeen(xfer'[1]) \/ i = PollLimit - 1)
        /\ pc' = "poll" => i' = i + 1
        /\ UNCHANGED << fdOpen, out, calib, adc, meas, calls, bp >>]_vars

\* bpbme280 has left the loop after a last status read that failed, and is
\* about to read the raw sample.
C15_Witness ==
    /\ prog = "bpbme280" /\ pc = "raw"
    /\ Len(xfer) = 1 /\ xfer[1].reg = REG_STATUS /\ XferFailed(xfer[1])
    /\ failed = {"status"}


\* ------------------------------------------------------------------------
\* Configuration
\* ------------------------------------------------------------------------

\* The registers and values of the configuration, in the order required.
ConfigPlan ==
    << [reg |-> REG_CTRL_HUM, val |-> 1], [reg |-> REG_CTRL_MEAS, val |-> 39],
       [reg |-> REG_CONFIG, val |-> 128] >>

\* C16: the configuration writes 0xF2 = 0x01, 0xF4 = 0x27, 0xF5 = 0x80 in
\* that order; no write follows a failed one; the run goes on to polling
\* exactly when all three succeeded and ends otherwise; and in a run whose
\* configuration failed no raw sample is read.
C16_ConfigurationOrder ==
    /\ []("config" \in failed =>
            /\ pc \in {"exit", "cleanup"}
            /\ "raw" \notin failed /\ data = << >> /\ adc.T = Indeterminate
            /\ NoMeasurement)
    /\ [][pc = "config" =>
            /\ Len(xfer') \in 1 .. 3
            /\ \A k \in 1 .. Len(xfer') :
                /\ xfer'[k].op = "write"
                /\ xfer'[k].reg = ConfigPlan[k].reg
                /\ xfer'[k].val = ConfigPlan[k].val
                /\ k < Len(xfer') => ~XferFailed(xfer'[k])
            /\ Len(xfer') < 3 => XferFailed(xfer'[Len(xfer')])
            /\ pc' = "poll" <=> (Len(xfer') = 3 /\ ~XferFailed(xfer'[3]))
            /\ pc' \in {"poll", "exit", "cleanup"}]_vars

\* The second write failed: the third was not issued and the run has ended.
C16_Witness ==
    /\ pc = "exit" /\ "config" \in failed
    /\ Len(xfer) = 2 /\ xfer[2].reg = REG_CTRL_MEAS /\ XferFailed(xfer[2])


\* ------------------------------------------------------------------------
\* The raw sample
\* ------------------------------------------------------------------------

\* Nothing has been stored in adc_T, adc_P, adc_H.
NoSample == adc = [T |-> Indeterminate, P |-> Indeterminate, H |-> Indeterminate]

\* C17: the raw sample is acquired by one 8-byte read at 0xF7; when it
\* succeeds adc_P, adc_T and adc_H are the 20-, 20- and 16-bit numbers made of
\* bytes 0..2, 3..5 and 6..7, within [0, 2^20 - 1] and [0, 65535]; when it
\* fails or comes short the run ends and none of the three has been written.
C17_RawSample ==
    [][pc = "raw" =>
        /\ Len(xfer') = 1 /\ xfer'[1].op = "read"
        /\ xfer'[1].reg = 247 /\ xfer'[1].len = 8
        /\ NoSample
        /\ IF XferFailed(xfer'[1])
           THEN adc' = adc /\ pc' \in {"exit", "cleanup"}
           ELSE /\ Len(data') = 8
                /\ adc'.P = At(data', 0) * 4096 + At(data', 1) * 16 + At(data', 2) \div 16
                /\ adc'.T = At(data', 3) * 4096 + At(data', 4) * 16 + At(data', 5) \div 16
                /\ adc'.H = At(data', 6) * 256 + At(data', 7)
                /\ adc'.P \in 0 .. 1048575 /\ adc'.T \in 0 .. 1048575
                /\ adc'.H \in 0 .. 65535
                /\ pc' = "compT"]_vars

\* A read that delivered 7 of the 8 bytes: the run is over and no output of
\* the read has been written.
C17_Witness ==
    /\ failed = {"raw"} /\ Len(xfer) = 1 /\ xfer[1].w = 1 /\ xfer[1].r = LenRaw - 1
    /\ Len(data) = LenRaw - 1 /\ NoSample

\* ------------------------------------------------------------------------
\* The calibration set after the load
\* ------------------------------------------------------------------------

\* The sixteen coefficients, t_fine apart.
SixteenCoefficients == CalibFields \ {"t_fine"}

\* C18: the load step is never taken with a loaded or a failed set, so it
\* runs at most once; only the load and the temperature compensation change
\* the structure; the temperature compensation changes t_fine only; the
\* pressure and humidity compensation change nothing in it.
C18_CalibrationImmutable ==
    /\ [](pc = "calib" => ~Loaded /\ "calib" \notin failed /\ calls = << >>)
    /\ [][/\ pc = "calib" => pc' # "calib"
          /\ calib' # calib => pc \in {"calib", "compT"}
          /\ pc = "compT" =>
                /\ \A f \in SixteenCoefficients : calib'[f] = calib[f]
                /\ calib'.t_fine = T_fine(adc.T, calib)
          /\ pc \in {"compP", "compH"} => calib' = calib]_vars

\* All three compensations have run and the sixteen coefficients are still
\* the ones decoded from the sensor's blocks, with t_fine set.
C18_Witness ==
    /\ Len(calls) = 3 /\ Loaded
    /\ calib = [DecodeCalib(calib, sensor.A, sensor.B) EXCEPT
                    !.t_fine = T_fine(adc.T, calib)]
    /\ calib.t_fine > 0

\* ------------------------------------------------------------------------
\* H4 and H5
\* ------------------------------------------------------------------------

=============================================================================
